---- MODULE Spec2Model ----
(***************************************************************************)
(* beadmachine: conversion of a raster image into a bead pattern.          *)
(*                                                                         *)
(* The model follows process() of main.go: allocation of the output image, *)
(* the noColorMatching copy loop, the call of processImage with its error  *)
(* path, the creation and encoding of the output file, and the usage       *)
(* aggregator calculateBeadUsage that ranges over the usage channel.       *)
(* processImage itself (palette filtering, the per pixel workers, the      *)
(* colour matcher with its two caches, the wait/close barrier) is not part *)
(* of main.go; it is modelled from the design document.                    *)
(***************************************************************************)
EXTENDS Integers, Sequences, FiniteSets

\* ------------------------------------------------------------------------
\* Bounds of the model
\* ------------------------------------------------------------------------

\* largest number of pixels (width * height) of an input image
MaxPixels == 3

\* largest number of pixels of an input image of the bead style runs
MaxBeadPixels == 2

\* largest number of pixels of an input image of the fairly scheduled runs
MaxFairPixels == 2

\* largest offset of the image bounds' Min corner from the origin
MaxOrigin == 1

\* largest number of entries of a loaded palette
MaxPalette == 4

\* largest number of pixels of an image in the runs with lock steps
MaxLockPixels == 2

\* capacity of the usage channel
ChanCap == 1

\* largest width of an image whose bead boards are counted
MaxDimension == 90

\* largest value of the flags --width and --height
MaxTarget == 2

\* largest value of the flags --boardswidth and --boardsheight
MaxBoards == 1

\* largest value of the flag --boarddimension
MaxBoardDimension == 3

\* ------------------------------------------------------------------------
\* Program constants
\* ------------------------------------------------------------------------

\* edge of the block one pixel becomes in bead style
BeadSize == 8

\* the default of the flag --boarddimension
DefaultBoardDimension == 20

\* the number of beads of a board's side
BoardBeads == 29

\* ------------------------------------------------------------------------
\* Colours
\* ------------------------------------------------------------------------

\* a non-premultiplied 8 bit colour value, as color.NRGBA
Colour(r, g, b, a) == [R |-> r, G |-> g, B |-> b, A |-> a]

\* the value image.NewRGBA fills the output buffer with
ZeroPixel == Colour(0, 0, 0, 0)

\* the channel triple of a pixel, alpha left out
Rgb(p) == <<p.R, p.G, p.B>>

\* a key that is the colour value of the pixel as it is, its alpha included
CacheKeyWithAlpha(p) == p

\* the key of a pixel in both caches: its RGBColor, equal by the channel
\* triple, the alpha left out
CacheKey(p) == Rgb(p)

\* sRGB (D50, Bradford) to Lab, in tenths of a Lab unit, for the colours of
\* the model
ToLab(rgb) ==
    CASE rgb = <<0, 0, 0>>       -> <<0, 0, 0>>
      [] rgb = <<255, 255, 255>> -> <<1000, 0, 0>>
      [] rgb = <<27, 27, 27>>    -> <<98, 0, 0>>
      [] rgb = <<60, 60, 60>>    -> <<253, 0, 0>>
      [] rgb = <<76, 76, 76>>    -> <<323, 0, 0>>
      [] rgb = <<145, 145, 145>> -> <<602, 0, 0>>
      [] rgb = <<255, 0, 0>>     -> <<543, 808, 699>>
      [] rgb = <<200, 0, 0>>     -> <<425, 673, 582>>

\* square of the Euclidean distance of two Lab coordinates
Dist2(p, q) ==
    (p[1] - q[1]) * (p[1] - q[1]) + (p[2] - q[2]) * (p[2] - q[2])
        + (p[3] - q[3]) * (p[3] - q[3])

\* ------------------------------------------------------------------------
\* Palette
\* ------------------------------------------------------------------------

\* one palette entry: the name it is loaded under and its BeadConfig
Bead(n, r, g, b, grey, trans, fluo) ==
    [name |-> n, R |-> r, G |-> g, B |-> b,
     GreyShade |-> grey, Translucent |-> trans, Flourescent |-> fluo]

Black == Bead("black", 0, 0, 0, TRUE, FALSE, FALSE)
White == Bead("white", 255, 255, 255, TRUE, FALSE, FALSE)
Glass == Bead("glass", 145, 145, 145, FALSE, TRUE, FALSE)
Neon  == Bead("neon", 255, 0, 0, FALSE, FALSE, TRUE)
Red   == Bead("red", 255, 0, 0, FALSE, FALSE, FALSE)

BeadPool == {Black, White, Glass, Neon, Red}

BeadNames == {e.name : e \in BeadPool}

\* the sequences of at most n different entries of the pool
RECURSIVE PalettesUpTo(_)
PalettesUpTo(n) ==
    IF n = 0 THEN {<<>>}
    ELSE LET shorter == PalettesUpTo(n - 1)
         IN  shorter \cup
             {Append(s, e) : s \in {t \in shorter : Len(t) = n - 1}, e \in BeadPool}

NoRepeat(s) == \A i, j \in 1..Len(s) : i # j => s[i].name # s[j].name

Palettes == {s \in PalettesUpTo(MaxPalette) : NoRepeat(s)}

\* the Lab coordinate of a palette entry, computed when the palette is loaded
LabOf(e) == ToLab(<<e.R, e.G, e.B>>)

\* the colour a matched pixel is written with
BeadColour(e) == Colour(e.R, e.G, e.B, 255)

\* ------------------------------------------------------------------------
\* Images
\* ------------------------------------------------------------------------

Rect(x0, y0, x1, y1) == [MinX |-> x0, MinY |-> y0, MaxX |-> x1, MaxY |-> y1]

Dx(b) == b.MaxX - b.MinX
Dy(b) == b.MaxY - b.MinY

\* the coordinates of a rectangle
Coords(b) == (b.MinX .. (b.MaxX - 1)) \X (b.MinY .. (b.MaxY - 1))

\* the bounds of the decoded images of the model: w * h pixels, placed at
\* most maxOrigin away from the origin
ImageBounds(maxPixels, maxOrigin) ==
    {Rect(ox, oy, ox + w, oy + h) :
        <<ox, oy, w, h>> \in {t \in (0..maxOrigin) \X (0..maxOrigin)
                                      \X (1..maxPixels) \X (1..maxPixels) :
                                 t[3] * t[4] <= maxPixels}}

\* pixel colours of the input images
Dark     == Colour(27, 27, 27, 255)
DarkHalf == Colour(27, 27, 27, 128)
MidGrey  == Colour(145, 145, 145, 255)
Crimson  == Colour(200, 0, 0, 255)
PureRed  == Colour(255, 0, 0, 255)

PixelColours == {Dark, DarkHalf, MidGrey, Crimson, PureRed}

\* ------------------------------------------------------------------------
\* State
\* ------------------------------------------------------------------------

VARIABLES
    palette,            \* the loaded palette, in load order
    greyScale,          \* flag --grey
    translucent,        \* flag --translucent
    flourescent,        \* flag --flourescent
    beadStyle,          \* flag --beadstyle
    noColorMatching,    \* flag --nocolormatching
    imageBounds,        \* bounds of the input image
    inputImage,         \* colour of every input coordinate
    pc,                 \* position of process()
    err,                \* error process() ends with
    outBounds,          \* beadModeImageBounds
    outputImage,        \* colour of every output coordinate
    outputFile,         \* "absent", "created" or "encoded"
    index,              \* the filtered palette
    filterPos,          \* next palette entry the filter looks at
    colorMatchCache,    \* colour -> name of the matched bead
    rgbLabCache,        \* colour -> Lab coordinate
    wpc,                \* position of the worker of every input coordinate
    wlab,               \* Lab coordinate a worker holds
    wmatch,             \* bead name a worker holds
    wmiss,              \* whether a worker missed the match cache
    wtrace,             \* history of a worker, read by no step of the
                        \* program: whether a result of its colour was
                        \* committed before its lookup, and the number of
                        \* its scans of the index
    beadUsageChan,      \* buffered usage events
    chanClosed,         \* whether the usage channel is closed
    panicked,           \* a send hit the closed channel
    apc,                \* position of calculateBeadUsage
    colorUsageCounts,   \* the aggregator's table
    reported,           \* the tables the aggregator has logged
    inputFile,          \* the input file: readable or not, and its picture
    writeCount,         \* number of writes to every output coordinate
    colorMatchCacheLock, \* readers and writers of the match cache's lock
    rgbLabCacheLock,    \* readers and writers of the Lab cache's lock
    width,              \* flag --width
    height,             \* flag --height
    boardsWidth,        \* flag --boardswidth
    boardsHeight,       \* flag --boardsheight
    boardDimension,     \* flag --boarddimension
    decodedBounds,      \* bounds of the image as it was decoded
    newWidth,           \* width the image is resized to
    newHeight,          \* height the image is resized to
    resized,            \* whether the image has been resized
    boardsUsed          \* the logged bead board numbers

inputs == <<palette, greyScale, translucent, flourescent, beadStyle,
            noColorMatching, inputFile, imageBounds, inputImage>>

mainVars == <<pc, err, outBounds, outputImage, outputFile, index, filterPos>>

cacheVars == <<colorMatchCache, rgbLabCache>>

workerVars == <<wpc, wlab, wmatch, wmiss, wtrace>>

chanVars == <<beadUsageChan, chanClosed, panicked>>

aggVars == <<apc, colorUsageCounts, reported>>

lockVars == <<colorMatchCacheLock, rgbLabCacheLock>>

frontVars == <<width, height, boardsWidth, boardsHeight, boardDimension,
               decodedBounds, newWidth, newHeight, resized, boardsUsed>>

vars == <<inputs, mainVars, cacheVars, workerVars, chanVars, aggVars,
          writeCount, lockVars, frontVars>>

None == "none"

\* the Lab coordinate of a worker that has none yet
NoLab == <<>>

\* an empty Go map
MakeMap == <<>>

\* a match cache that still holds an entry of an earlier palette
StaleColorMatchCache == [k \in {<<27, 27, 27>>} |-> "red"]

\* the match cache startBeadMachine makes
NewColorMatchCache == MakeMap

\* the Lab cache startBeadMachine makes
NewRgbLabCache == MakeMap

\* m with m[k] = v
MapPut(m, k, v) == [x \in DOMAIN m \cup {k} |-> IF x = k THEN v ELSE m[x]]

\* a sync.RWMutex nobody holds
NewRWMutex == [readers |-> {}, pending |-> {}, writer |-> {}]

\* a count that rounds every started board up
CalculateBeadBoardsNeededCeil(dimension) ==
    (dimension + BoardBeads - 1) \div BoardBeads

\* calculateBeadBoardsNeeded: float64(dimension)/29, plus .5, floor, int;
\* the quotient is kept as a fraction <<numerator, denominator>>
CalculateBeadBoardsNeeded(dimension) ==
    LET neededFloat == <<dimension, BoardBeads>>
        plusHalf == <<2 * neededFloat[1] + neededFloat[2], 2 * neededFloat[2]>>
    IN  plusHalf[1] \div plusHalf[2]

\* the two log entries on the bead boards: their number, and the measurement
\* (a bead is half a centimeter, kept in millimeters)
BoardsLog(b) ==
    [width |-> CalculateBeadBoardsNeeded(Dx(b)),
     height |-> CalculateBeadBoardsNeeded(Dy(b)),
     widthMm |-> Dx(b) * 5,
     heightMm |-> Dy(b) * 5]

\* nothing is logged yet
NoBoards == <<>>

\* the zero value of image.Rectangle
ZeroRect == Rect(0, 0, 0, 0)

\* an input file that cannot be read or decoded
Unreadable == [ok |-> FALSE, bounds |-> ZeroRect, pixels |-> <<>>]

\* an input file with a picture of the given bounds and pixels
ImageFile(b, img) == [ok |-> TRUE, bounds |-> b, pixels |-> img]

\* the input files of a run on that picture: the picture, or no readable file
Files(b, img) == {Unreadable, ImageFile(b, img)}

\* the machine startBeadMachine builds, at the entry of process()
Loaded(pal, grey, trans, fluo, bead, nomatch, file) ==
    /\ palette = pal
    /\ greyScale = grey
    /\ translucent = trans
    /\ flourescent = fluo
    /\ beadStyle = bead
    /\ noColorMatching = nomatch
    /\ inputFile = file
    /\ imageBounds = ZeroRect
    /\ inputImage = <<>>
    /\ decodedBounds = ZeroRect
    /\ err = "nil"
    /\ outBounds = ZeroRect
    /\ outputImage = <<>>
    /\ outputFile = "absent"
    /\ index = <<>>
    /\ filterPos = 1
    /\ colorMatchCache = NewColorMatchCache
    /\ rgbLabCache = NewRgbLabCache
    /\ wpc = <<>>
    /\ wlab = <<>>
    /\ wmatch = <<>>
    /\ wmiss = <<>>
    /\ wtrace = <<>>
    /\ beadUsageChan = <<>>
    /\ chanClosed = FALSE
    /\ panicked = FALSE
    /\ apc = "idle"
    /\ colorUsageCounts = MakeMap
    /\ reported = <<>>
    /\ writeCount = <<>>
    /\ colorMatchCacheLock = NewRWMutex
    /\ rgbLabCacheLock = NewRWMutex

\* the flags of the dimensions
Flags(w, h, bw, bh, bd) ==
    /\ width = w
    /\ height = h
    /\ boardsWidth = bw
    /\ boardsHeight = bh
    /\ boardDimension = bd

\* the state at the entry of process(), for the given machine and flags of
\* the dimensions, on the given picture or on no readable file
Entry(pal, grey, trans, fluo, bead, nomatch, b, img, w, h, bw, bh, bd) ==
    \E file \in Files(b, img) :
        /\ Loaded(pal, grey, trans, fluo, bead, nomatch, file)
        /\ Flags(w, h, bw, bh, bd)
        /\ newWidth = 0
        /\ newHeight = 0
        /\ resized = FALSE
        /\ boardsUsed = NoBoards
        /\ pc = "read"

\* the state at the entry of process() for a run without resize flags
Start(pal, grey, trans, fluo, bead, nomatch, b, img) ==
    Entry(pal, grey, trans, fluo, bead, nomatch, b, img,
          0, 0, 0, 0, DefaultBoardDimension)

\* ------------------------------------------------------------------------
\* process(): allocation, copy loop, error path, output file
\* ------------------------------------------------------------------------

\* the bounds of the output image: in bead style the Max corner times 8
BeadModeImageBounds(b, bead) ==
    IF bead
    THEN Rect(b.MinX, b.MinY, b.MaxX * BeadSize, b.MaxY * BeadSize)
    ELSE b

\* image.NewRGBA: every pixel of the rectangle is the zero colour
NewRGBA(b) == [c \in Coords(b) |-> ZeroPixel]

\* inputImage.At: the pixel of a point, the zero colour outside of the image
At(img, c) == IF c \in DOMAIN img THEN img[c] ELSE ZeroPixel

\* SetRGBA on every point of ps; points outside of the image are left out
SetAll(img, ps, col) == [c \in DOMAIN img |-> IF c \in ps THEN col ELSE img[c]]

\* the write counts after one more write to every point of ps
Written(n, ps) == [c \in DOMAIN n |-> IF c \in ps THEN n[c] + 1 ELSE n[c]]

\* color.NRGBA.RGBA(): the alpha-premultiplied 16 bit channels
RGBA16(p) ==
    <<((p.R * 257) * p.A) \div 255, ((p.G * 257) * p.A) \div 255,
      ((p.B * 257) * p.A) \div 255, p.A * 257>>

\* the pixel the copy loop writes for a source pixel
CopiedPixel(p) ==
    Colour(RGBA16(p)[1] % 256, RGBA16(p)[2] % 256, RGBA16(p)[3] % 256, 255)

Alloc ==
    /\ pc = "alloc"
    /\ outBounds' = BeadModeImageBounds(imageBounds, beadStyle)
    /\ outputImage' = NewRGBA(outBounds')
    /\ writeCount' = [c \in Coords(outBounds') |-> 0]
    /\ pc' = IF noColorMatching THEN "copy" ELSE "filter"
    /\ UNCHANGED <<frontVars, lockVars, inputs, err, outputFile, index, filterPos, cacheVars,
                   workerVars, chanVars, aggVars>>

CopyPixels ==
    /\ pc = "copy"
    /\ outputImage' =
           [c \in DOMAIN outputImage |->
               IF c \in Coords(imageBounds)
               THEN CopiedPixel(At(inputImage, c))
               ELSE outputImage[c]]
    /\ writeCount' = Written(writeCount, Coords(imageBounds))
    /\ pc' = "create"
    /\ UNCHANGED <<frontVars, lockVars, inputs, err, outBounds, outputFile, index, filterPos,
                   cacheVars, workerVars, chanVars, aggVars>>

\* a caller that goes on after an error
AfterProcessImageIgnoringError(e) == "create"

\* what process() does with the result of processImage
AfterProcessImage(e) == IF e # "nil" THEN "done" ELSE "create"

ProcessImageReturned ==
    /\ pc = "returned"
    /\ pc' = AfterProcessImage(err)
    /\ UNCHANGED <<frontVars, lockVars, writeCount, inputs, err, outBounds, outputImage, outputFile, index,
                   filterPos, cacheVars, workerVars, chanVars, aggVars>>

CreateFile ==
    /\ pc = "create"
    /\ \/ /\ outputFile' = "created"
          /\ pc' = "encode"
          /\ err' = err
       \/ /\ outputFile' = outputFile
          /\ pc' = "done"
          /\ err' = "CreateError"
    /\ UNCHANGED <<frontVars, lockVars, writeCount, inputs, outBounds, outputImage, index, filterPos,
                   cacheVars, workerVars, chanVars, aggVars>>

EncodeFile ==
    /\ pc = "encode"
    /\ outputFile' = "encoded"
    /\ pc' = "done"
    /\ UNCHANGED <<frontVars, lockVars, writeCount, inputs, err, outBounds, outputImage, index, filterPos,
                   cacheVars, workerVars, chanVars, aggVars>>

\* ------------------------------------------------------------------------
\* calculateBeadUsage: the aggregator
\* ------------------------------------------------------------------------

\* an assignment of 1 in the place of the increment
CountedOnce(m, beadName) == MapPut(m, beadName, 1)

\* colorUsageCounts[beadName]++
Counted(m, beadName) ==
    MapPut(m, beadName, IF beadName \in DOMAIN m THEN m[beadName] + 1 ELSE 1)

\* a loop that ends as soon as the channel is empty
RangeEndsWhenEmpty == beadUsageChan = <<>>

\* a loop that ends as soon as the channel is closed
RangeEndsWhenClosed == chanClosed

\* the range loop ends when the channel is closed and drained
RangeEnds == chanClosed /\ beadUsageChan = <<>>

\* what the aggregator logs: the number of colours and the count of each
UsageReport(m) == [count |-> Cardinality(DOMAIN m), beads |-> m]

AggReceive ==
    /\ apc = "range"
    /\ beadUsageChan # <<>>
    /\ colorUsageCounts' = Counted(colorUsageCounts, Head(beadUsageChan))
    /\ beadUsageChan' = Tail(beadUsageChan)
    /\ UNCHANGED <<frontVars, lockVars, writeCount, inputs, mainVars, cacheVars, workerVars, chanClosed,
                   panicked, apc, reported>>

AggRangeEnd ==
    /\ apc = "range"
    /\ RangeEnds
    /\ apc' = "report"
    /\ UNCHANGED <<frontVars, lockVars, writeCount, inputs, mainVars, cacheVars, workerVars, chanVars,
                   colorUsageCounts, reported>>

AggReport ==
    /\ apc = "report"
    /\ reported' = Append(reported, UsageReport(colorUsageCounts))
    /\ apc' = "send"
    /\ UNCHANGED <<frontVars, lockVars, writeCount, inputs, mainVars, cacheVars, workerVars, chanVars,
                   colorUsageCounts>>

\* an aggregator that ends without its send on beadStatsDone
StatsDoneNotSent ==
    /\ apc = "send"
    /\ apc' = "done"
    /\ UNCHANGED <<frontVars, lockVars, writeCount, inputs, mainVars, cacheVars, workerVars, chanVars,
                   colorUsageCounts, reported>>

\* the send on the unbuffered beadStatsDone meets the receive of processImage
StatsDone ==
    /\ apc = "send"
    /\ pc = "recv"
    /\ apc' = "done"
    /\ pc' = "returned"
    /\ UNCHANGED <<frontVars, lockVars, writeCount, inputs, err, outBounds, outputImage, outputFile, index,
                   filterPos, cacheVars, workerVars, chanVars,
                   colorUsageCounts, reported>>

\* ------------------------------------------------------------------------
\* processImage: palette filter
\* ------------------------------------------------------------------------

\* a rule that lets translucent entries in whatever the flag is
KeepTranslucent(e) ==
    /\ ~e.Flourescent \/ flourescent
    /\ greyScale => e.GreyShade

\* the selection rule of the palette filter
Keep(e) ==
    /\ ~e.Translucent \/ translucent
    /\ ~e.Flourescent \/ flourescent
    /\ greyScale => e.GreyShade

FilterStep ==
    /\ pc = "filter"
    /\ filterPos <= Len(palette)
    /\ index' = IF Keep(palette[filterPos])
                THEN Append(index, palette[filterPos])
                ELSE index
    /\ filterPos' = filterPos + 1
    /\ UNCHANGED <<frontVars, lockVars, writeCount, inputs, pc, err, outBounds, outputImage, outputFile,
                   cacheVars, workerVars, chanVars, aggVars>>

\* an empty index is the error processImage returns with
FilterResult(idx) == IF idx = <<>> THEN "EmptyPaletteError" ELSE "nil"

FilterEnd ==
    /\ pc = "filter"
    /\ filterPos > Len(palette)
    /\ err' = FilterResult(index)
    /\ pc' = IF err' # "nil" THEN "returned" ELSE "spawn"
    /\ UNCHANGED <<frontVars, lockVars, writeCount, inputs, outBounds, outputImage, outputFile, index,
                   filterPos, cacheVars, workerVars, chanVars, aggVars>>

\* ------------------------------------------------------------------------
\* processImage: the colour matcher
\* ------------------------------------------------------------------------

\* the scan of the index from entry i on; best is the nearest entry so far
RECURSIVE ScanFrom(_, _, _, _)
ScanFrom(idx, lab, i, best) ==
    IF i > Len(idx) THEN best
    ELSE ScanFrom(idx, lab, i + 1,
                  IF Dist2(lab, LabOf(idx[i])) < Dist2(lab, LabOf(idx[best]))
                  THEN i ELSE best)

\* a scan in which a later entry at the same distance replaces the best one
RECURSIVE ScanFromLast(_, _, _, _)
ScanFromLast(idx, lab, i, best) ==
    IF i > Len(idx) THEN best
    ELSE ScanFromLast(idx, lab, i + 1,
                      IF Dist2(lab, LabOf(idx[i])) <= Dist2(lab, LabOf(idx[best]))
                      THEN i ELSE best)

FindSimilarColorLast(idx, lab) == idx[ScanFromLast(idx, lab, 2, 1)].name

\* a scan in the order of the range over a Go map, which starts at an entry
\* that differs from call to call (here: with the size of the match cache);
\* the first nearest entry in that order wins
FindSimilarColorMapOrder(idx, lab) ==
    LET n == Len(idx)
        start == n - (Cardinality(DOMAIN colorMatchCache) % n)
        pos(i) == ((start + i - 2) % n) + 1
        dist(i) == Dist2(lab, LabOf(idx[pos(i)]))
        best == CHOOSE i \in 1..n :
                    /\ \A j \in 1..n : dist(i) <= dist(j)
                    /\ \A j \in 1..(i - 1) : dist(j) > dist(i)
    IN  idx[pos(best)].name

\* the name of the entry of the index nearest to the Lab coordinate
FindSimilarColor(idx, lab) == idx[ScanFrom(idx, lab, 2, 1)].name

\* the palette entry loaded under a name
BeadNamed(n) == CHOOSE e \in {palette[i] : i \in 1..Len(palette)} : e.name = n

\* the output points of an input coordinate: itself, or its block in bead style
OutputPoints(c) ==
    IF beadStyle
    THEN ((c[1] * BeadSize) .. (c[1] * BeadSize + BeadSize - 1))
             \X ((c[2] * BeadSize) .. (c[2] * BeadSize + BeadSize - 1))
    ELSE {c}

\* ------------------------------------------------------------------------
\* processImage: workers, barrier, close
\* ------------------------------------------------------------------------

\* the aggregator and one worker per input coordinate are started
Spawn ==
    /\ pc = "spawn"
    /\ apc' = "range"
    /\ wpc' = [c \in DOMAIN wpc |-> "lookup"]
    /\ pc' = "wait"
    /\ UNCHANGED <<frontVars, lockVars, writeCount, inputs, err, outBounds, outputImage, outputFile, index,
                   filterPos, cacheVars, wlab, wmatch, wmiss, wtrace,
                   chanVars,
                   colorUsageCounts, reported>>

\* a lookup that finds nothing, whatever the cache holds
CacheHitNever(cache, k) == FALSE

\* the check of a cache for a key
CacheHit(cache, k) == k \in DOMAIN cache

\* a worker of the colour of c has scanned the index and committed its result
Committed(c) ==
    \E d \in DOMAIN wtrace :
        /\ Rgb(At(inputImage, d)) = Rgb(At(inputImage, c))
        /\ wtrace[d].scans > 0

\* step 1 of the matcher: the match cache is read
LookupStep(c) ==
    /\ wpc[c] = "lookup"
    /\ LET k == CacheKey(At(inputImage, c))
       IN  IF CacheHit(colorMatchCache, k)
           THEN /\ wmatch' = [wmatch EXCEPT ![c] = colorMatchCache[k]]
                /\ wpc' = [wpc EXCEPT ![c] = "emit"]
                /\ wmiss' = wmiss
           ELSE /\ wmiss' = [wmiss EXCEPT ![c] = TRUE]
                /\ wpc' = [wpc EXCEPT ![c] = "lab"]
                /\ wmatch' = wmatch
    /\ wtrace' = [wtrace EXCEPT ![c].warm = Committed(c)]
    /\ UNCHANGED <<frontVars, writeCount, inputs, mainVars, cacheVars, wlab, chanVars, aggVars>>

\* step 2 of the matcher: the Lab cache is read, on a miss the pixel converted
LabLookupStep(c) ==
    /\ wpc[c] = "lab"
    /\ LET k == CacheKey(At(inputImage, c))
       IN  IF CacheHit(rgbLabCache, k)
           THEN /\ wlab' = [wlab EXCEPT ![c] = rgbLabCache[k]]
                /\ wpc' = [wpc EXCEPT ![c] = "scan"]
           ELSE /\ wlab' = [wlab EXCEPT ![c] = ToLab(Rgb(At(inputImage, c)))]
                /\ wpc' = [wpc EXCEPT ![c] = "labput"]
    /\ UNCHANGED <<frontVars, writeCount, inputs, mainVars, cacheVars, wmatch, wmiss, wtrace,
                   chanVars,
                   aggVars>>

\* the converted coordinate is committed to the Lab cache
LabCommitStep(c) ==
    /\ wpc[c] = "labput"
    /\ rgbLabCache' = MapPut(rgbLabCache, CacheKey(At(inputImage, c)), wlab[c])
    /\ wpc' = [wpc EXCEPT ![c] = "scan"]
    /\ UNCHANGED <<frontVars, writeCount, inputs, mainVars, colorMatchCache, wlab, wmatch, wmiss, wtrace,
                   chanVars, aggVars>>

\* steps 3 and 4 of the matcher: the index is scanned, the winner committed
ScanCommitStep(c) ==
    /\ wpc[c] = "scan"
    /\ wmatch' = [wmatch EXCEPT ![c] = FindSimilarColor(index, wlab[c])]
    /\ colorMatchCache' =
           MapPut(colorMatchCache, CacheKey(At(inputImage, c)),
                  wmatch'[c])
    /\ wpc' = [wpc EXCEPT ![c] = "emit"]
    /\ wtrace' = [wtrace EXCEPT ![c].scans = @ + 1]
    /\ UNCHANGED <<frontVars, writeCount, inputs, mainVars, rgbLabCache, wlab, wmiss, chanVars,
                   aggVars>>

\* the steps of the matcher, each with its critical section as one step
Lookup(c) == LookupStep(c) /\ UNCHANGED lockVars

LabLookup(c) == LabLookupStep(c) /\ UNCHANGED lockVars

LabCommit(c) == LabCommitStep(c) /\ UNCHANGED lockVars

ScanCommit(c) == ScanCommitStep(c) /\ UNCHANGED lockVars

\* the matched colour is written to the output and its name sent to the
\* usage channel; a send on a closed channel panics
Emit(c) ==
    /\ wpc[c] = "emit"
    /\ IF chanClosed
       THEN /\ panicked' = TRUE
            /\ UNCHANGED <<beadUsageChan, outputImage, writeCount>>
       ELSE /\ Len(beadUsageChan) < ChanCap
            /\ beadUsageChan' = Append(beadUsageChan, wmatch[c])
            /\ outputImage' = SetAll(outputImage, OutputPoints(c),
                                     BeadColour(BeadNamed(wmatch[c])))
            /\ writeCount' = Written(writeCount, OutputPoints(c))
            /\ panicked' = panicked
    /\ wpc' = [wpc EXCEPT ![c] = "done"]
    /\ UNCHANGED <<frontVars, lockVars, inputs, pc, err, outBounds, outputFile, index, filterPos,
                   cacheVars, wlab, wmatch, wmiss, wtrace, chanClosed,
                   aggVars>>

\* the barrier: every worker has returned
AllWorkersDone == \A c \in DOMAIN wpc : wpc[c] = "done"

\* after the barrier the usage channel is closed
WaitClose ==
    /\ pc = "wait"
    /\ AllWorkersDone
    /\ chanClosed' = TRUE
    /\ pc' = "recv"
    /\ UNCHANGED <<frontVars, lockVars, writeCount, inputs, err, outBounds, outputImage, outputFile, index,
                   filterPos, cacheVars, workerVars, beadUsageChan, panicked,
                   aggVars>>

\* ------------------------------------------------------------------------
\* The cache locks: sync.RWMutex, and the matcher with its lock calls
\* ------------------------------------------------------------------------

\* RLock returns at once unless a writer holds the lock or has called Lock
RLockFree(l) == l.writer = {} /\ l.pending = {}

RLocked(l, c) == [l EXCEPT !.readers = @ \cup {c}]

RUnlocked(l, c) == [l EXCEPT !.readers = @ \ {c}]

\* Lock first excludes the other writers and announces itself to the readers
LockFree(l) == l.writer = {} /\ l.pending = {}

LockPending(l, c) == [l EXCEPT !.pending = {c}]

\* and returns when the readers that hold the lock have left
LockReady(l, c) == c \in l.pending /\ l.readers = {}

Locked(l, c) == [l EXCEPT !.pending = {}, !.writer = {c}]

Unlocked(l, c) == [l EXCEPT !.writer = @ \ {c}]

\* what a step on the lock of the match cache leaves alone
MatchLockOnly ==
    UNCHANGED <<frontVars, writeCount, inputs, mainVars, cacheVars,
                workerVars, chanVars, aggVars, rgbLabCacheLock>>

\* what a step on the lock of the Lab cache leaves alone
LabLockOnly ==
    UNCHANGED <<frontVars, writeCount, inputs, mainVars, cacheVars,
                workerVars, chanVars, aggVars, colorMatchCacheLock>>

\* a worker at step at of the matcher that has not called RLock yet
AsksRead(l, c, at) == wpc[c] = at /\ c \notin l.readers

\* a worker at step at of the matcher that has not called Lock yet
AsksWrite(l, c, at) == wpc[c] = at /\ c \notin l.pending \cup l.writer

MatchRLock(c) ==
    /\ AsksRead(colorMatchCacheLock, c, "lookup")
    /\ RLockFree(colorMatchCacheLock)
    /\ colorMatchCacheLock' = RLocked(colorMatchCacheLock, c)
    /\ MatchLockOnly

LookupRUnlock(c) ==
    /\ c \in colorMatchCacheLock.readers
    /\ LookupStep(c)
    /\ colorMatchCacheLock' = RUnlocked(colorMatchCacheLock, c)
    /\ UNCHANGED rgbLabCacheLock

LabRLock(c) ==
    /\ AsksRead(rgbLabCacheLock, c, "lab")
    /\ RLockFree(rgbLabCacheLock)
    /\ rgbLabCacheLock' = RLocked(rgbLabCacheLock, c)
    /\ LabLockOnly

LabLookupRUnlock(c) ==
    /\ c \in rgbLabCacheLock.readers
    /\ LabLookupStep(c)
    /\ rgbLabCacheLock' = RUnlocked(rgbLabCacheLock, c)
    /\ UNCHANGED colorMatchCacheLock

LabLockCall(c) ==
    /\ AsksWrite(rgbLabCacheLock, c, "labput")
    /\ LockFree(rgbLabCacheLock)
    /\ rgbLabCacheLock' = LockPending(rgbLabCacheLock, c)
    /\ LabLockOnly

LabLockReturn(c) ==
    /\ LockReady(rgbLabCacheLock, c)
    /\ rgbLabCacheLock' = Locked(rgbLabCacheLock, c)
    /\ LabLockOnly

LabCommitUnlock(c) ==
    /\ c \in rgbLabCacheLock.writer
    /\ LabCommitStep(c)
    /\ rgbLabCacheLock' = Unlocked(rgbLabCacheLock, c)
    /\ UNCHANGED colorMatchCacheLock

MatchLockCall(c) ==
    /\ AsksWrite(colorMatchCacheLock, c, "scan")
    /\ LockFree(colorMatchCacheLock)
    /\ colorMatchCacheLock' = LockPending(colorMatchCacheLock, c)
    /\ MatchLockOnly

MatchLockReturn(c) ==
    /\ LockReady(colorMatchCacheLock, c)
    /\ colorMatchCacheLock' = Locked(colorMatchCacheLock, c)
    /\ MatchLockOnly

ScanCommitUnlock(c) ==
    /\ c \in colorMatchCacheLock.writer
    /\ ScanCommitStep(c)
    /\ colorMatchCacheLock' = Unlocked(colorMatchCacheLock, c)
    /\ UNCHANGED rgbLabCacheLock

\* ------------------------------------------------------------------------
\* process(): resize and board log
\* ------------------------------------------------------------------------

\* one work item for every coordinate of the bounds, none of them started
NoWorkYet(b) ==
    /\ wpc' = [c \in Coords(b) |-> "idle"]
    /\ wlab' = [c \in Coords(b) |-> NoLab]
    /\ wmatch' = [c \in Coords(b) |-> None]
    /\ wmiss' = [c \in Coords(b) |-> FALSE]
    /\ wtrace' = [c \in Coords(b) |-> [warm |-> FALSE, scans |-> 0]]

\* readImageFile: on an error process() logs it and returns
ReadImage ==
    /\ pc = "read"
    /\ IF inputFile.ok
       THEN /\ inputImage' = inputFile.pixels
            /\ imageBounds' = inputFile.bounds
            /\ decodedBounds' = inputFile.bounds
            /\ NoWorkYet(imageBounds')
            /\ err' = err
            /\ pc' = "filters"
       ELSE /\ err' = "ReadError"
            /\ pc' = "done"
            /\ UNCHANGED <<inputImage, imageBounds, decodedBounds,
                           workerVars>>
    /\ UNCHANGED <<palette, greyScale, translucent, flourescent, beadStyle,
                   noColorMatching, inputFile, outBounds, outputImage,
                   outputFile, index, filterPos, cacheVars,
                   chanVars, aggVars, writeCount, lockVars, width, height,
                   boardsWidth, boardsHeight, boardDimension, newWidth,
                   newHeight, resized, boardsUsed>>

\* the grey of a pixel: the rounded luminance in the three channels, the
\* alpha kept
GreyPixel(p) ==
    LET y == (299 * p.R + 587 * p.G + 114 * p.B + 500) \div 1000
    IN  Colour(y, y, y, p.A)

\* the grey scale image of an image of bounds b: a new image from the origin
Grayscale(img, b) ==
    [c \in Coords(Rect(0, 0, Dx(b), Dy(b))) |->
        GreyPixel(img[<<c[1] + b.MinX, c[2] + b.MinY>>])]

\* applyFilters, with the blur, sharpen, gamma, contrast and brightness
\* flags at their default 0, which leaves the grey scale conversion; the
\* bounds taken before are not taken again
ApplyFilters ==
    /\ pc = "filters"
    /\ inputImage' = IF greyScale
                     THEN Grayscale(inputImage, imageBounds)
                     ELSE inputImage
    /\ pc' = "resize"
    /\ UNCHANGED <<palette, greyScale, translucent, flourescent, beadStyle,
                   noColorMatching, inputFile, imageBounds, err, outBounds,
                   outputImage, outputFile, index, filterPos, cacheVars,
                   workerVars, chanVars, aggVars, writeCount, lockVars,
                   frontVars>>

\* a target size in which a given pixel number wins over the boards
ResizeTargetPixelsFirst(boards, dimension, pixels) ==
    IF pixels > 0 THEN pixels ELSE boards * dimension

\* the target size of one side: a given number of boards overrides a given
\* number of pixels
ResizeTarget(boards, dimension, pixels) ==
    IF boards > 0 THEN boards * dimension ELSE pixels

\* floor(n/d + 0.5) for d > 0
RoundHalfUp(n, d) == (2 * n + d) \div (2 * d)

Max(a, b) == IF a >= b THEN a ELSE b

\* the bounds of imaging.Resize(img, w, h, filter): empty for a negative
\* size, for no size and for an empty source; a side given as 0 keeps the
\* aspect ratio and is at least 1; the result starts at the origin
ResizedBounds(b, w, h) ==
    IF w < 0 \/ h < 0 \/ (w = 0 /\ h = 0) \/ Dx(b) <= 0 \/ Dy(b) <= 0
    THEN Rect(0, 0, 0, 0)
    ELSE Rect(0, 0,
              IF w = 0 THEN Max(1, RoundHalfUp(h * Dx(b), Dy(b))) ELSE w,
              IF h = 0 THEN Max(1, RoundHalfUp(w * Dy(b), Dx(b))) ELSE h)

\* the pixels of a resized image of one colour
Resampled(img, b) == [c \in Coords(b) |-> img[CHOOSE p \in DOMAIN img : TRUE]]

ResizeStep ==
    /\ pc = "resize"
    /\ newWidth' = ResizeTarget(boardsWidth, boardDimension, width)
    /\ newHeight' = ResizeTarget(boardsHeight, boardDimension, height)
    /\ resized' = (newWidth' > 0 \/ newHeight' > 0)
    /\ imageBounds' = IF resized'
                      THEN ResizedBounds(imageBounds, newWidth', newHeight')
                      ELSE imageBounds
    /\ inputImage' = IF resized'
                     THEN Resampled(inputImage, imageBounds')
                     ELSE inputImage
    /\ NoWorkYet(imageBounds')
    /\ pc' = "log"
    /\ UNCHANGED <<palette, greyScale, translucent, flourescent, beadStyle,
                   noColorMatching, inputFile, err, outBounds, outputImage,
                   outputFile, index, filterPos, cacheVars, chanVars, aggVars,
                   writeCount, lockVars, width, height, boardsWidth,
                   boardsHeight, boardDimension, decodedBounds, boardsUsed>>

LogBoards ==
    /\ pc = "log"
    /\ boardsUsed' = BoardsLog(imageBounds)
    /\ pc' = "alloc"
    /\ UNCHANGED <<inputs, err, outBounds, outputImage, outputFile, index,
                   filterPos, cacheVars, workerVars, chanVars, aggVars,
                   writeCount, lockVars, width, height, boardsWidth,
                   boardsHeight, boardDimension, decodedBounds, newWidth,
                   newHeight, resized>>

\* ------------------------------------------------------------------------
\* Specifications
\* ------------------------------------------------------------------------

Worker(c) ==
    \/ Lookup(c)
    \/ LabLookup(c)
    \/ LabCommit(c)
    \/ ScanCommit(c)
    \/ Emit(c)

Next ==
    \/ ReadImage
    \/ ApplyFilters
    \/ ResizeStep
    \/ LogBoards
    \/ Alloc
    \/ CopyPixels
    \/ FilterStep
    \/ FilterEnd
    \/ Spawn
    \/ \E c \in DOMAIN wpc : Worker(c)
    \/ WaitClose
    \/ AggReceive
    \/ AggRangeEnd
    \/ AggReport
    \/ StatsDone
    \/ ProcessImageReturned
    \/ CreateFile
    \/ EncodeFile

\* the palette of the runs that do not vary it
DefaultPalette == <<Black, White, Glass, Neon, Red>>

\* the images of a rectangle with pixels of the given colours
Images(b, colours) == [Coords(b) -> colours]

\* runs over every image of at most MaxPixels pixels at the origin
Init ==
    \E pal \in {DefaultPalette, <<Glass>>}, nomatch \in BOOLEAN,
       b \in ImageBounds(MaxPixels, 0) :
        \E img \in Images(b, {Dark, DarkHalf, PureRed}) :
            Start(pal, FALSE, FALSE, TRUE, FALSE, nomatch, b, img)

Spec == Init /\ [][Next]_vars

\* runs over every palette and every combination of the palette flags
InitPalette ==
    \E pal \in Palettes, grey \in BOOLEAN, trans \in BOOLEAN,
       fluo \in BOOLEAN, nomatch \in BOOLEAN, col \in PixelColours :
        Start(pal, grey, trans, fluo, FALSE, nomatch, Rect(0, 0, 1, 1),
              [c \in Coords(Rect(0, 0, 1, 1)) |-> col])

SpecPalette == InitPalette /\ [][Next]_vars

\* runs over every placement of the image bounds, plain and in bead style
InitBead ==
    \E pal \in {DefaultPalette, <<Glass>>}, bead \in BOOLEAN,
       nomatch \in BOOLEAN, b \in ImageBounds(MaxBeadPixels, MaxOrigin),
       col \in {Dark, PureRed} :
        Start(pal, FALSE, FALSE, TRUE, bead, nomatch, b,
              [c \in Coords(b) |-> col])

SpecBead == InitBead /\ [][Next]_vars

\* the matcher of one worker with its lock calls
LockWorker(c) ==
    \/ MatchRLock(c)
    \/ LookupRUnlock(c)
    \/ LabRLock(c)
    \/ LabLookupRUnlock(c)
    \/ LabLockCall(c)
    \/ LabLockReturn(c)
    \/ LabCommitUnlock(c)
    \/ MatchLockCall(c)
    \/ MatchLockReturn(c)
    \/ ScanCommitUnlock(c)
    \/ Emit(c)

\* the run with colour matching, the lock calls of the workers as steps
NextLock ==
    \/ ReadImage
    \/ ApplyFilters
    \/ ResizeStep
    \/ LogBoards
    \/ Alloc
    \/ FilterStep
    \/ FilterEnd
    \/ Spawn
    \/ \E c \in DOMAIN wpc : LockWorker(c)
    \/ WaitClose
    \/ AggReceive
    \/ AggRangeEnd
    \/ AggReport
    \/ StatsDone
    \/ ProcessImageReturned
    \/ CreateFile
    \/ EncodeFile

\* runs with colour matching over every image of at most MaxLockPixels pixels
InitLock ==
    \E b \in ImageBounds(MaxLockPixels, 0) :
        \E img \in Images(b, {Dark, PureRed}) :
            Start(DefaultPalette, FALSE, FALSE, TRUE, FALSE, FALSE, b, img)

SpecLock == InitLock /\ [][NextLock]_vars

\* the front of process(): from the read of the file to the board log
NextFront ==
    \/ ReadImage
    \/ ApplyFilters
    \/ ResizeStep
    \/ LogBoards

\* the state at the entry of process() for a picture of one colour
StartFront(b, w, h, bw, bh, bd) ==
    Entry(DefaultPalette, FALSE, FALSE, TRUE, FALSE, FALSE, b,
          [c \in Coords(b) |-> Dark], w, h, bw, bh, bd)

\* runs over the flags of the dimensions, for small images
InitResize ==
    \E b \in ImageBounds(MaxBeadPixels, MaxOrigin),
       w \in -1..MaxTarget, h \in -1..MaxTarget,
       bw \in -1..MaxBoards, bh \in -1..MaxBoards,
       bd \in 0..MaxBoardDimension :
        StartFront(b, w, h, bw, bh, bd)

SpecResize == InitResize /\ [][NextFront]_vars

\* runs over the widths of an image; a negative height empties a resized one
InitBoards ==
    \E d \in 1..MaxDimension, w \in {0, 1}, h \in {0, -1} :
        StartFront(Rect(0, 0, d, 1), w, h, 0, 0, DefaultBoardDimension)

SpecBoards == InitBoards /\ [][NextFront]_vars

\* ------------------------------------------------------------------------
\* Helpers of the properties
\* ------------------------------------------------------------------------

\* the input coordinates
Pixels == Coords(imageBounds)

\* the positions of process() up to the allocation of the output image
FrontPcs == {"read", "filters", "resize", "log", "alloc"}

\* the output image has been allocated
Allocated == err # "ReadError" /\ pc \notin FrontPcs

RECURSIVE SumOver(_, _)
SumOver(f, S) ==
    IF S = {} THEN 0
    ELSE LET x == CHOOSE y \in S : TRUE
         IN  f[x] + SumOver(f, S \ {x})

\* the table that counts, for every name a pixel is given, its pixels
UsageOf(names) ==
    [n \in {names[c] : c \in Pixels} |-> Cardinality({c \in Pixels : names[c] = n})]

\* the Lab coordinate of the pixel at a coordinate
PixelLab(c) == ToLab(Rgb(inputImage[c]))

\* the entry of the index nearest to a pixel, found without the caches
NearestOf(c) == FindSimilarColor(index, PixelLab(c))

\* the aggregator has left its range loop
AggLeftLoop == apc \in {"report", "send", "done"}

\* the name is the name of an entry of the index at minimal distance
IsNearest(n, lab) ==
    \E i \in 1..Len(index) :
        /\ index[i].name = n
        /\ \A j \in 1..Len(index) :
               Dist2(lab, LabOf(index[i])) <= Dist2(lab, LabOf(index[j]))

\* ------------------------------------------------------------------------
\* Properties
\* ------------------------------------------------------------------------

\* C1: once the aggregator has left its loop, the usage table maps every bead
\* name to the number of pixels matched to it, in every interleaving: it has
\* no entry of count zero, its counts add up to width * height, and it is the
\* table the input image determines.
UsageTableExact ==
    AggLeftLoop =>
        /\ colorUsageCounts = UsageOf(wmatch)
        /\ colorUsageCounts = UsageOf([c \in Pixels |-> NearestOf(c)])
        /\ \A n \in DOMAIN colorUsageCounts : colorUsageCounts[n] > 0
        /\ SumOver(colorUsageCounts, DOMAIN colorUsageCounts)
               = Dx(imageBounds) * Dy(imageBounds)

\* a table of two colours, one of them used by two pixels, is complete
UsageTableExactWitness ==
    /\ apc = "done"
    /\ Cardinality(DOMAIN colorUsageCounts) = 2
    /\ \E n \in DOMAIN colorUsageCounts : colorUsageCounts[n] = 2

\* C2: the usage channel is closed only when every worker has returned, no
\* send hits the closed channel, and the aggregator leaves its loop only when
\* the channel is closed and drained and no worker has an event left.
CloseAfterWorkers ==
    /\ chanClosed => AllWorkersDone
    /\ ~panicked
    /\ AggLeftLoop => chanClosed /\ beadUsageChan = <<>> /\ AllWorkersDone

\* the aggregator has ended after the events of several workers
CloseAfterWorkersWitness ==
    /\ apc = "done"
    /\ chanClosed
    /\ Cardinality(Pixels) >= 2
    /\ \E c \in Pixels : wmiss[c]
    /\ \E c \in Pixels : ~wmiss[c]

\* C3: the aggregator has logged its table only when the channel is closed,
\* every pixel processed and every event consumed, and the logged table is
\* the complete one.
ReportOnlyComplete ==
    /\ Len(reported) <= 1
    /\ Len(reported) = 1 =>
           /\ chanClosed
           /\ AllWorkersDone
           /\ beadUsageChan = <<>>
           /\ reported[1].beads = UsageOf(wmatch)
           /\ reported[1].count = Cardinality({wmatch[c] : c \in Pixels})

\* a report of two colours over three pixels
ReportOnlyCompleteWitness ==
    /\ Len(reported) = 1
    /\ reported[1].count = 2
    /\ Cardinality(Pixels) = 3

\* the position in the index of the entry named n
IndexPos(n) == CHOOSE i \in 1..Len(index) : index[i].name = n

\* the name is the name of the first of the nearest entries of the index
IsFirstNearest(n, lab) ==
    /\ IsNearest(n, lab)
    /\ \A j \in 1..Len(index) :
           Dist2(lab, LabOf(index[j])) = Dist2(lab, LabOf(index[IndexPos(n)]))
               => IndexPos(n) <= j

\* C4: every match of a pixel colour, computed or read from the cache, in
\* every interleaving of the workers, yields the one bead that the colour
\* and the index determine, the first of the nearest entries; so any two
\* matches of the same colour yield the same bead, also when both workers
\* missed the cache and both computed and committed, and the committed entry
\* is that bead.
MatchDeterministic ==
    /\ \A c \in Pixels :
           wmatch[c] # None =>
               /\ IsFirstNearest(wmatch[c], PixelLab(c))
               /\ CacheKey(inputImage[c]) \in DOMAIN colorMatchCache
               /\ colorMatchCache[CacheKey(inputImage[c])] = wmatch[c]
    /\ \A c, d \in Pixels :
           /\ wmatch[c] # None
           /\ wmatch[d] # None
           /\ Rgb(inputImage[c]) = Rgb(inputImage[d])
           => wmatch[c] = wmatch[d]

\* two workers of one colour have both missed the cache and both committed
MatchDeterministicWitness ==
    \E c, d \in Pixels :
        /\ c # d
        /\ inputImage[c] = inputImage[d]
        /\ wtrace[c].scans = 1 /\ wtrace[d].scans = 1
        /\ wpc[c] = "done" /\ wpc[d] = "done"
        /\ wmatch[c] = wmatch[d]

\* C5: a value committed to the match cache never changes, every worker that
\* holds a result for a key holds the cached one, and the cached bead is a
\* nearest entry of the index for the key.
CacheCommitStable ==
    /\ [][\A k \in DOMAIN colorMatchCache :
              /\ k \in DOMAIN colorMatchCache'
              /\ colorMatchCache'[k] = colorMatchCache[k]]_vars
    /\ [](\A c \in Pixels :
              CacheKey(inputImage[c]) \in DOMAIN colorMatchCache =>
                  /\ IsNearest(colorMatchCache[CacheKey(inputImage[c])],
                               PixelLab(c))
                  /\ wmatch[c] # None =>
                         wmatch[c] = colorMatchCache[CacheKey(inputImage[c])])

\* a key has been committed a second time, by a worker that had missed it
CacheCommitStableWitness ==
    \E c, d \in Pixels :
        /\ c # d
        /\ inputImage[c] = inputImage[d]
        /\ wmiss[c] /\ wmiss[d]
        /\ wpc[c] \in {"emit", "done"}
        /\ wpc[d] \in {"emit", "done"}
        /\ CacheKey(inputImage[c]) \in DOMAIN colorMatchCache

\* the distance of the pixel at c to entry i of the index
PixelDist(c, i) == Dist2(PixelLab(c), LabOf(index[i]))

\* C6: a computed match is an entry of the index at minimal Lab distance to
\* the pixel, and among the entries at that distance the first of the index.
NearestFirstInOrder ==
    \A c \in Pixels :
        wmiss[c] /\ wmatch[c] # None =>
            \E i \in 1..Len(index) :
                /\ index[i].name = wmatch[c]
                /\ \A j \in 1..Len(index) :
                       /\ PixelDist(c, i) <= PixelDist(c, j)
                       /\ j < i => PixelDist(c, i) < PixelDist(c, j)

\* a match where two entries are at the minimal distance and the first won,
\* with a farther entry in front of both
NearestFirstInOrderWitness ==
    \E c \in Pixels :
        /\ wmiss[c]
        /\ Len(index) >= 3
        /\ \E i, j \in 2..Len(index) :
               /\ i < j
               /\ index[i].name = wmatch[c]
               /\ PixelDist(c, i) = PixelDist(c, j)
               /\ PixelDist(c, 1) > PixelDist(c, i)

\* the palette filter has run to its end
FilterDone ==
    ~noColorMatching /\ err # "ReadError" /\ pc \notin FrontPcs \cup {"filter"}

\* the entries of a sequence
Entries(s) == {s[i] : i \in 1..Len(s)}

\* the place of an entry in the loaded palette
PalettePos(e) == CHOOSE i \in 1..Len(palette) : palette[i] = e

\* C7: the filter keeps an entry iff it is not translucent or translucent
\* entries are included, and it is not fluorescent or fluorescent entries are
\* included, and in grey scale mode only if it is tagged grey, whatever the
\* two flags; the kept entries are in the order of the loaded palette.
FilterSelects ==
    FilterDone =>
        /\ \A e \in Entries(palette) :
               e \in Entries(index) <=>
                   /\ ~e.Translucent \/ translucent
                   /\ ~e.Flourescent \/ flourescent
                   /\ greyScale => e.GreyShade
        /\ Entries(index) \subseteq Entries(palette)
        /\ greyScale => \A e \in Entries(index) : e.GreyShade
        /\ \A i, j \in 1..Len(index) :
               i < j => PalettePos(index[i]) < PalettePos(index[j])

\* a filter that has kept some entries and dropped a translucent one
FilterSelectsWitness ==
    /\ FilterDone
    /\ Len(index) >= 2
    /\ Len(index) < Len(palette)
    /\ \E e \in Entries(palette) : e.Translucent /\ e \notin Entries(index)
    /\ \E e \in Entries(index) : e.Flourescent

\* C9: a filter that keeps nothing ends with EmptyPaletteError, and under
\* that error no worker has run, no pixel is matched or written, no usage
\* event is sent or counted, and process() ends without an output file.
EmptyPaletteAborts ==
    /\ FilterDone /\ index = <<>> => err = "EmptyPaletteError"
    /\ err = "EmptyPaletteError" =>
           /\ pc \in {"returned", "done"}
           /\ index = <<>>
           /\ \A c \in Pixels : wpc[c] = "idle" /\ wmatch[c] = None
           /\ outputImage = NewRGBA(outBounds)
           /\ DOMAIN colorMatchCache = {}
           /\ beadUsageChan = <<>>
           /\ DOMAIN colorUsageCounts = {}
           /\ apc = "idle"
           /\ outputFile = "absent"

\* a palette of translucent entries alone, translucent entries not included,
\* and the run at its end
EmptyPaletteAbortsWitness ==
    /\ palette = <<Glass>>
    /\ ~translucent
    /\ ~noColorMatching
    /\ err = "EmptyPaletteError"
    /\ pc = "done"

\* the matching has returned without an error
Matched == ~noColorMatching /\ err = "nil" /\ pc \in {"returned", "create", "encode"}

\* C10, as stated: in bead style the output is 8 times as wide and as high
\* as the input, every pixel's 8 x 8 block carries the colour of its bead,
\* and the usage table counts every input pixel once.
BeadStyleEnlarges ==
    beadStyle /\ Allocated =>
        /\ Dx(outBounds) = BeadSize * Dx(imageBounds)
        /\ Dy(outBounds) = BeadSize * Dy(imageBounds)
        /\ Matched =>
               /\ \A c \in Pixels :
                      /\ Cardinality(OutputPoints(c)) = BeadSize * BeadSize
                      /\ \A q \in OutputPoints(c) :
                             /\ q \in DOMAIN outputImage
                             /\ outputImage[q] = BeadColour(BeadNamed(wmatch[c]))
               /\ colorUsageCounts = UsageOf(wmatch)
               /\ SumOver(colorUsageCounts, DOMAIN colorUsageCounts)
                      = Cardinality(Pixels)

\* the copy loop of the noColorMatching mode has run
Copied ==
    noColorMatching /\ err # "ReadError" /\ pc \in {"create", "encode", "done"}

\* in noColorMatching mode the matcher is never invoked
NoMatcherWithoutMatching ==
    noColorMatching =>
        /\ DOMAIN colorMatchCache = {}
        /\ DOMAIN rgbLabCache = {}
        /\ beadUsageChan = <<>>
        /\ DOMAIN colorUsageCounts = {}
        /\ apc = "idle"
        /\ \A c \in Pixels : wpc[c] = "idle"

\* C11, as stated: in noColorMatching mode the matcher is never invoked, and
\* after the copy loop the output pixel of every input coordinate has the
\* red, green and blue values of the source pixel and alpha 255.
CopyKeepsChannels ==
    /\ NoMatcherWithoutMatching
    /\ Copied =>
           \A c \in Pixels :
               outputImage[c] =
                   Colour(inputImage[c].R, inputImage[c].G, inputImage[c].B, 255)

\* ------------------------------------------------------------------------
\* Fair scheduling
\* ------------------------------------------------------------------------

\* the scheduler runs some goroutine as long as one can take a step; the
\* goroutines take finitely many steps each, so this is all the pixel pass
\* needs of the scheduler
Fairness == WF_vars(Next)

\* runs over every image of at most MaxFairPixels pixels at the origin
InitFair ==
    \E pal \in {DefaultPalette, <<Glass>>}, nomatch \in BOOLEAN,
       b \in ImageBounds(MaxFairPixels, 0) :
        \E img \in Images(b, {Dark, PureRed}) :
            Start(pal, FALSE, FALSE, TRUE, FALSE, nomatch, b, img)

SpecFair == InitFair /\ [][Next]_vars /\ Fairness

\* C12: once the workers are started over a non-empty index the pixel pass
\* returns, with every worker and the aggregator at its end, and when it has
\* returned every coordinate is processed and the usage channel closed.
PixelPassReturns ==
    /\ (pc = "wait") ~> (pc = "returned" /\ apc = "done" /\ AllWorkersDone)
    /\ [](pc = "returned" /\ err = "nil" =>
              /\ \A c \in Pixels : wpc[c] = "done" /\ wmatch[c] # None
              /\ chanClosed
              /\ beadUsageChan = <<>>)

\* the pixel pass has returned for an image of three pixels
PixelPassReturnsWitness ==
    /\ pc = "returned"
    /\ err = "nil"
    /\ apc = "done"
    /\ Cardinality(Pixels) = 2
    /\ \E c \in Pixels : ~wmiss[c]

\* the keys of the pixels at c and d that a cache holds
KeysHeld(cache, c, d) ==
    {CacheKey(inputImage[c]), CacheKey(inputImage[d])} \cap DOMAIN cache

\* the colours of the image, by their channel triples
RgbOfImage == {Rgb(inputImage[c]) : c \in Pixels}

WarmStep(c) == wtrace'[c].warm /\ wpc'[c] # wpc[c]

\* C14: a match of a colour that begins after a result for the colour was
\* committed is served from the cache: the worker never scans the index and
\* never obtains a Lab coordinate, none of its steps changes a cache, and it
\* returns the bead of the computations of that colour.
CacheHitServes ==
    /\ [][\A c \in Pixels :
              WarmStep(c) =>
                  /\ colorMatchCache' = colorMatchCache
                  /\ rgbLabCache' = rgbLabCache]_vars
    /\ [](\A c \in Pixels :
              wtrace[c].warm =>
                  /\ wtrace[c].scans = 0
                  /\ wlab[c] = NoLab
                  /\ wpc[c] \in {"emit", "done"}
                  /\ \A d \in Pixels :
                         Rgb(inputImage[d]) = Rgb(inputImage[c])
                             /\ wtrace[d].scans > 0
                             => wmatch[c] = wmatch[d])

\* a worker served from the cache after the computation of another worker
CacheHitServesWitness ==
    \E c, d \in Pixels :
        /\ c # d
        /\ inputImage[c] = inputImage[d]
        /\ wtrace[d].scans = 1 /\ wpc[d] = "done"
        /\ wtrace[c].warm /\ wpc[c] = "done"
        /\ wmatch[c] = wmatch[d]

\* ------------------------------------------------------------------------
\* C16: the work items and the output coordinates
\* ------------------------------------------------------------------------

\* C16, as stated: every input coordinate has exactly one work item, the
\* output points of two work items never overlap and no output coordinate is
\* written twice, and when the pixel pass has returned every coordinate of
\* the output image has been written exactly once.
WorkItemsPartition ==
    /\ DOMAIN wpc = Pixels
    /\ \A c, d \in Pixels : c # d => OutputPoints(c) \cap OutputPoints(d) = {}
    /\ \A q \in DOMAIN writeCount : writeCount[q] <= 1
    /\ Matched => \A q \in DOMAIN outputImage : writeCount[q] = 1

\* ------------------------------------------------------------------------
\* C18: the copy loop in bead style
\* ------------------------------------------------------------------------

\* C18, as stated: without colour matching the pixels are written at the
\* coordinates of the input bounds only, whatever beadStyle is; in bead style
\* the output image is 8 times as wide and as high as the input, and every
\* coordinate outside of the input bounds still holds the zero colour.
CopyWritesUnscaled ==
    Copied =>
        /\ beadStyle =>
               /\ Dx(outBounds) = BeadSize * Dx(imageBounds)
               /\ Dy(outBounds) = BeadSize * Dy(imageBounds)
        /\ DOMAIN outputImage = Coords(outBounds)
        /\ \A q \in DOMAIN outputImage :
               /\ q \in Pixels =>
                      /\ writeCount[q] = 1
                      /\ outputImage[q] = CopiedPixel(inputImage[q])
               /\ q \notin Pixels =>
                      /\ writeCount[q] = 0
                      /\ outputImage[q] = ZeroPixel

\* ------------------------------------------------------------------------
\* C17: the number of bead boards
\* ------------------------------------------------------------------------

\* the number r is d/29 rounded to the nearest integer, a half rounded up
HalfUpOf(d, r) ==
    /\ r = (2 * d + 29) \div 58
    /\ 29 * (2 * r - 1) <= 2 * d
    /\ 2 * d < 29 * (2 * r + 1)

\* the ceiling of d/29
CeilingOf(d) == CHOOSE r \in 0..d : 29 * (r - 1) < d /\ d <= 29 * r

\* C17: for every dimension d >= 0 the logged number of boards is d/29
\* rounded half up, floor(d/29 + 1/2) = (2d + 29) div 58; it is one less than
\* the ceiling of d/29 when the rest of d/29 is from 1 to 14.
BoardsRoundHalfUp ==
    pc = "alloc" =>
        /\ Dx(imageBounds) >= 0
        /\ Dy(imageBounds) >= 0
        /\ HalfUpOf(Dx(imageBounds), boardsUsed.width)
        /\ HalfUpOf(Dy(imageBounds), boardsUsed.height)
        /\ boardsUsed.width =
               IF Dx(imageBounds) % 29 \in 1..14
               THEN CeilingOf(Dx(imageBounds)) - 1
               ELSE CeilingOf(Dx(imageBounds))

\* a width of one board and a half is logged as one board, not as two
BoardsRoundHalfUpWitness ==
    /\ pc = "alloc"
    /\ Dx(imageBounds) = 43
    /\ boardsUsed.width = 1
    /\ CeilingOf(Dx(imageBounds)) = 2

\* ------------------------------------------------------------------------
\* C19: boards override pixels
\* ------------------------------------------------------------------------

AfterResize == pc \in {"log", "alloc"}

\* C19: after the resize step the target width is boardsWidth times
\* boardDimension when boardsWidth > 0, whatever width is, and width
\* otherwise, the same for the height; the image has been resized iff a
\* target side is greater than 0, and otherwise has its decoded bounds.
BoardsOverridePixels ==
    AfterResize =>
        /\ boardsWidth > 0 => newWidth = boardsWidth * boardDimension
        /\ boardsWidth <= 0 => newWidth = width
        /\ boardsHeight > 0 => newHeight = boardsHeight * boardDimension
        /\ boardsHeight <= 0 => newHeight = height
        /\ resized <=> (newWidth > 0 \/ newHeight > 0)
        /\ ~resized => imageBounds = decodedBounds
        /\ resized /\ newWidth > 0 /\ newHeight > 0 =>
               /\ Dx(imageBounds) = newWidth
               /\ Dy(imageBounds) = newHeight

\* boards and a different pixel width are both given, the boards win
BoardsOverridePixelsWitness ==
    /\ AfterResize
    /\ boardsWidth > 0
    /\ width > 0
    /\ width # boardsWidth * boardDimension
    /\ resized
    /\ Dx(imageBounds) = boardsWidth * boardDimension
    /\ Dx(imageBounds) # Dx(decodedBounds)

\* ------------------------------------------------------------------------
\* C15: the discipline of the cache locks
\* ------------------------------------------------------------------------

Key(c) == CacheKey(inputImage[c])

\* readers share the lock and writers exclude each other
ReadersShare(l) ==
    /\ Cardinality(l.writer) <= 1
    /\ Cardinality(l.pending) <= 1
    /\ l.writer # {} => l.pending = {}

\* a lookup that is about to ask for read access gets it whenever no writer
\* holds or awaits the lock, whoever reads
LookupsNeverBlockLookups ==
    \A c \in Pixels :
        /\ AsksRead(colorMatchCacheLock, c, "lookup")
               /\ colorMatchCacheLock.writer \cup colorMatchCacheLock.pending = {}
               => ENABLED MatchRLock(c)
        /\ AsksRead(rgbLabCacheLock, c, "lab")
               /\ rgbLabCacheLock.writer \cup rgbLabCacheLock.pending = {}
               => ENABLED LabRLock(c)

\* C15, as stated: readers share each cache and never block each other, at
\* most one writer holds write access, and a writer of one key does not
\* block the lookup of a different key.
WritesLeaveOtherKeysReadable ==
    /\ ReadersShare(colorMatchCacheLock)
    /\ ReadersShare(rgbLabCacheLock)
    /\ LookupsNeverBlockLookups
    /\ \A c, d \in Pixels :
           Key(c) # Key(d) =>
               /\ AsksRead(colorMatchCacheLock, c, "lookup")
                      /\ d \in colorMatchCacheLock.writer
                                \cup colorMatchCacheLock.pending
                      => ENABLED MatchRLock(c)
               /\ AsksRead(rgbLabCacheLock, c, "lab")
                      /\ d \in rgbLabCacheLock.writer
                                \cup rgbLabCacheLock.pending
                      => ENABLED LabRLock(c)

====
